---- MODULE Spec2Model ----
(***************************************************************************)
(* Model of 01_Languages/C/data-structures-algorithms.c: the singly linked *)
(* list, the growable array with its quicksort, the 101-bucket chained     *)
(* hash table, the validator with the guarded insert, and the flow of      *)
(* main.  The heap is one function, mem, from the addresses of the live    *)
(* blocks to their contents; malloc adds an address, free removes it.      *)
(***************************************************************************)
EXTENDS Integers, Sequences, FiniteSets, TLC

VARIABLES
    mem,          \* the heap: address -> block, DOMAIN mem = the live blocks
    devList,      \* LinkedList*   held by the caller (NULL before creation)
    devArray,     \* DynamicArray* held by the caller
    devHash,      \* HashTable*    held by the caller
    loadedArray,  \* DynamicArray* returned by loadDevelopersFromFile
    skillsCopy,   \* char*         returned by safeStringCopy
    file,         \* developers.dat on disk: NoFile or the records written
    pc,           \* the position of main
    i,            \* the loop counter of main
    op,           \* the library operation called last
    prevop,       \* the library operation called before that one
    arg,          \* the argument of the last call
    ret,          \* the value the last call returned
    pre,          \* the heap as it was when the last call started
    log,          \* the arguments of the insert/append calls made, in order
    crashed,      \* the process was killed by a wild memory access
    stray,        \* the memory words outside the table that an index past its
                  \* buckets addresses: index -> the pointer stored there
    initCap       \* the capacity the caller gave createDynamicArray

vars == <<mem, devList, devArray, devHash, loadedArray, skillsCopy, file,
          pc, i, op, prevop, arg, ret, pre, log, crashed, stray, initCap>>

----------------------------------------------------------------------------
(* Bounds of the model. *)

MaxNodes == 3

MaxCap == 2

MaxLen == 4

MaxHashInserts == 3

MaxFileRecords == 2

----------------------------------------------------------------------------
(* C values. *)

NULL == 0

\* A float is a number or NaN; every ordered comparison with NaN is false.
F(x) == [nan |-> FALSE, v |-> x]

NaN == [nan |-> TRUE, v |-> 0]

FLt(a, b) == ~a.nan /\ ~b.nan /\ a.v < b.v

FGe(a, b) == ~a.nan /\ ~b.nan /\ a.v >= b.v

\* typedef struct { int id; char name[50]; char email[100]; char skills[200];
\*                  float salary; } Developer;
\* name and skills are the text up to the terminator, email the tuple of its
\* characters.
Developer(id, name, email, skills, salary) ==
    [id |-> id, name |-> name, email |-> email, skills |-> skills,
     salary |-> salary]

----------------------------------------------------------------------------
(* The heap. *)

\* malloc: the address of a fresh block (the lowest one not live).
Malloc(m) ==
    CHOOSE a \in 1..(Cardinality(DOMAIN m) + 1) :
        a \notin DOMAIN m /\ \A b \in 1..(a - 1) : b \in DOMAIN m

\* The heap with the block at address a set to blk (a may be fresh).
Store(m, a, blk) == [x \in DOMAIN m \cup {a} |-> IF x = a THEN blk ELSE m[x]]

\* free(a)
Free(m, a) == [x \in DOMAIN m \ {a} |-> m[x]]

----------------------------------------------------------------------------
(* 4. Linked list. *)

\* createLinkedList: the heap and the pointer returned.
createLinkedList(m) ==
    LET list == Malloc(m)
    IN  [mem |-> Store(m, list, [kind |-> "LinkedList", head |-> NULL, size |-> 0]),
         ptr |-> list]

\* insertDeveloper without its list->size++.
insertDeveloperNoCount(m, list, dev) ==
    LET newNode == Malloc(m)
        m1 == Store(m, newNode, [kind |-> "Node", data |-> dev, next |-> m[list].head])
    IN  Store(m1, list, [m[list] EXCEPT !.head = newNode])

\* insertDeveloper: a new node holding a copy of dev becomes the head.
insertDeveloper(m, list, dev) ==
    LET newNode == Malloc(m)
        m1 == Store(m, newNode, [kind |-> "Node", data |-> dev, next |-> m[list].head])
    IN  Store(m1, list, [m[list] EXCEPT !.head = newNode, !.size = @ + 1])

\* The loop of findDeveloperById from node current on: the address of the
\* first node whose data.id is id, or NULL.  (&(current->data) is the node's
\* address: data is the first member.)
\* The loop of findDeveloperById leaving after its first node.
FindFromHeadOnly(m, current, id) ==
    IF current = NULL THEN NULL
    ELSE IF m[current].data.id = id THEN current
    ELSE NULL

RECURSIVE FindFrom(_, _, _)
FindFrom(m, current, id) ==
    IF current = NULL THEN NULL
    ELSE IF m[current].data.id = id THEN current
    ELSE FindFrom(m, m[current].next, id)

findDeveloperById(m, list, id) == FindFrom(m, m[list].head, id)

\* The traversal of displayDevelopers: the records from head on.
RECURSIVE Traverse(_, _)
Traverse(m, current) ==
    IF current = NULL THEN <<>>
    ELSE <<m[current].data>> \o Traverse(m, m[current].next)

\* The loop of freeDeveloperList: every node from current on is freed.
RECURSIVE FreeNodes(_, _)
FreeNodes(m, current) ==
    IF current = NULL THEN m
    ELSE FreeNodes(Free(m, current), m[current].next)

freeDeveloperList(m, list) == Free(FreeNodes(m, m[list].head), list)

----------------------------------------------------------------------------
(* 5. Dynamic array. *)

\* A cell of a malloc'ed or realloc'ed buffer that was never written.
Uninit == [uninit |-> TRUE]

\* createDynamicArray: the struct, then its buffer of initialCapacity cells.
createDynamicArray(m, initialCapacity) ==
    LET a == Malloc(m)
        m1 == Store(m, a, [kind |-> "DynamicArray", developers |-> NULL,
                           capacity |-> 0, size |-> 0])
        buf == Malloc(m1)
        m2 == Store(m1, buf, [kind |-> "Developer[]",
                              cells |-> [k \in 1..initialCapacity |-> Uninit]])
    IN  [mem |-> Store(m2, a, [kind |-> "DynamicArray", developers |-> buf,
                               capacity |-> initialCapacity, size |-> 0]),
         ptr |-> a]

\* A realloc that hands out n unwritten cells, copying nothing.
ReallocNoCopy(m, buf, n) ==
    Store(m, buf, [m[buf] EXCEPT !.cells = [k \in 1..n |-> Uninit]])

\* realloc(buf, n cells): the old cells up to n are kept, the new ones are
\* unwritten.
Realloc(m, buf, n) ==
    Store(m, buf, [m[buf] EXCEPT !.cells =
        [k \in 1..n |-> IF k <= Len(m[buf].cells) THEN m[buf].cells[k] ELSE Uninit]])

\* resizeArray: the buffer is reallocated to twice the capacity.
resizeArray(m, a) ==
    LET newCapacity == m[a].capacity * 2
        m1 == Realloc(m, m[a].developers, newCapacity)
    IN  Store(m1, a, [m[a] EXCEPT !.capacity = newCapacity])

\* addDeveloper: resize when full, then write dev at index size.
addDeveloper(m, a, dev) ==
    LET m1 == IF m[a].size >= m[a].capacity THEN resizeArray(m, a) ELSE m
        buf == m1[a].developers
        m2 == Store(m1, buf, [m1[buf] EXCEPT !.cells[m1[a].size + 1] = dev])
    IN  Store(m2, a, [m2[a] EXCEPT !.size = @ + 1])

\* freeDynamicArray: the buffer, then the struct.
freeDynamicArray(m, a) == Free(Free(m, m[a].developers), a)

\* The records of the array, index 0 to size-1.
Elements(m, a) == SubSeq(m[m[a].developers].cells, 1, m[a].size)

----------------------------------------------------------------------------
(* 6. Quick sort.  C indices start at 0, the cells of a sequence at 1. *)

Swap(cells, x, y) ==
    [cells EXCEPT ![x + 1] = cells[y + 1], ![y + 1] = cells[x + 1]]

\* The test of partition with <= for >=.
PartitionTestAscending(salary, pivot) == FGe(pivot, salary)

\* The test of partition with > for >=.
PartitionTestStrict(salary, pivot) == FLt(pivot, salary)

\* if (arr[j].salary >= pivot)
PartitionTest(salary, pivot) == FGe(salary, pivot)

\* The for loop of partition, from index j on: the cells and i at its end.
RECURSIVE PartitionLoop(_, _, _, _, _)
PartitionLoop(cells, pivot, ii, j, high) ==
    IF j > high - 1 THEN [cells |-> cells, i |-> ii]
    ELSE IF PartitionTest(cells[j + 1].salary, pivot)
         THEN PartitionLoop(Swap(cells, ii + 1, j), pivot, ii + 1, j + 1, high)
         ELSE PartitionLoop(cells, pivot, ii, j + 1, high)

\* partition: the cells and the pivot's final index.
partition(cells, low, high) ==
    LET pivot == cells[high + 1].salary
        r == PartitionLoop(cells, pivot, low - 1, low, high)
    IN  [cells |-> Swap(r.cells, r.i + 1, high), pi |-> r.i + 1]

RECURSIVE quickSort(_, _, _)
quickSort(cells, low, high) ==
    IF low < high
    THEN LET p == partition(cells, low, high)
         IN  quickSort(quickSort(p.cells, low, p.pi - 1), p.pi + 1, high)
    ELSE cells

\* sortDevelopersBySalary: quickSort over 0..size-1 when size > 1.
sortDevelopersBySalary(m, a) ==
    IF m[a].size > 1
    THEN LET buf == m[a].developers
         IN  Store(m, buf, [m[buf] EXCEPT !.cells = quickSort(@, 0, m[a].size - 1)])
    ELSE m

----------------------------------------------------------------------------
(* 7. Hash table. *)

HASH_TABLE_SIZE == 101

\* An unsigned int, as its two 16-bit halves (its value is hi * 2^16 + lo).
UInt(hi, lo) == [hi |-> hi, lo |-> lo]

\* (unsigned int) r, for an int r: r itself when r >= 0, 2^32 + r otherwise.
ToUnsigned(r) ==
    IF r >= 0 THEN UInt(r \div 65536, r % 65536)
    ELSE UInt(65536 + ((r - (r % 65536)) \div 65536), r % 65536)

\* a % b of C: the quotient is truncated toward zero, so the remainder has the
\* sign of a.
CRem(a, b) == IF a >= 0 THEN a % b ELSE -((-a) % b)

\* unsigned int hash(int key) { return key % HASH_TABLE_SIZE; }
hash(key) == ToUnsigned(CRem(key, HASH_TABLE_SIZE))

\* Whether an unsigned index is one of the table's buckets.
InTable(index) == index.hi = 0 /\ index.lo < HASH_TABLE_SIZE

\* createHashTable: every bucket is NULL.
createHashTable(m) ==
    LET table == Malloc(m)
    IN  [mem |-> Store(m, table, [kind |-> "HashTable",
                                  buckets |-> [b \in 0..(HASH_TABLE_SIZE - 1) |-> NULL]]),
         ptr |-> table]

\* A pointer read from memory the program never wrote: not NULL, and the
\* address of no block.
WILD == -1

\* table->buckets[index]: a bucket of the table, or, for an index past the
\* buckets, the word of other memory the address falls on.
Bucket(m, st, table, index) ==
    IF InTable(index) THEN m[table].buckets[index.lo] ELSE st[index]

\* hashInsert that does not link the bucket's chain behind the new node.
hashInsertNoLink(m, st, table, key, dev) ==
    LET index == hash(key)
        newNode == Malloc(m)
        m1 == Store(m, newNode, [kind |-> "HashNode", key |-> key, value |-> dev,
                                 next |-> NULL])
    IN  IF InTable(index)
        THEN [mem |-> Store(m1, table, [m[table] EXCEPT !.buckets[index.lo] = newNode]),
              stray |-> st]
        ELSE [mem |-> m1, stray |-> [st EXCEPT ![index] = newNode]]

\* hashInsert: the new node is linked in front of the chain of
\* table->buckets[index]; the heap and the memory outside the table.
hashInsert(m, st, table, key, dev) ==
    LET index == hash(key)
        newNode == Malloc(m)
        m1 == Store(m, newNode, [kind |-> "HashNode", key |-> key, value |-> dev,
                                 next |-> Bucket(m, st, table, index)])
    IN  IF InTable(index)
        THEN [mem |-> Store(m1, table, [m[table] EXCEPT !.buckets[index.lo] = newNode]),
              stray |-> st]
        ELSE [mem |-> m1, stray |-> [st EXCEPT ![index] = newNode]]

\* The loop of hashSearch from node current on: the address of the first
\* node whose key is key, or NULL; WILD when the chain leads to a pointer
\* that is no node.
RECURSIVE SearchFrom(_, _, _)
SearchFrom(m, current, key) ==
    IF current = NULL THEN NULL
    ELSE IF current \notin DOMAIN m THEN WILD
    ELSE IF m[current].key = key THEN current
    ELSE SearchFrom(m, m[current].next, key)

hashSearch(m, st, table, key) ==
    SearchFrom(m, Bucket(m, st, table, hash(key)), key)

----------------------------------------------------------------------------
(* 3, 8. The string copy and the file operations. *)

\* safeStringCopy: a block of strlen(source) + 1 chars holding source.
safeStringCopy(m, source) ==
    LET copy == Malloc(m)
    IN  [mem |-> Store(m, copy, [kind |-> "char[]", text |-> source]), ptr |-> copy]

\* What saveDevelopersToFile writes once the file is open: the size, then
\* the size records of the buffer.
SavedFile(m, a) ==
    [exists |-> TRUE, size |-> m[a].size, records |-> Elements(m, a)]

\* loadDevelopersFromFile once the file is open: an array created with the
\* size read, its cells read from the file, its size set.
loadDevelopersFromFile(m, f) ==
    LET c == createDynamicArray(m, f.size)
        buf == c.mem[c.ptr].developers
        m1 == Store(c.mem, buf, [c.mem[buf] EXCEPT !.cells = f.records])
    IN  [mem |-> Store(m1, c.ptr, [m1[c.ptr] EXCEPT !.size = f.size]), ptr |-> c.ptr]

----------------------------------------------------------------------------
(* 10. Validation and the guarded insert. *)

\* A null Developer*.
NullDev == [null |-> TRUE]

\* strchr(s, c) != NULL, for s a tuple of characters.
HasChar(s, c) == \E k \in 1..Len(s) : s[k] = c

\* validateDeveloper: the checks in the order of the code.
validateDeveloper(dev) ==
    IF dev = NullDev THEN FALSE
    ELSE IF dev.id <= 0 THEN FALSE
    ELSE IF dev.name = "" THEN FALSE
    ELSE IF Len(dev.email) = 0 THEN FALSE
    ELSE IF FLt(dev.salary, F(0)) THEN FALSE
    ELSE IF ~HasChar(dev.email, "@") THEN FALSE
    ELSE TRUE

\* safeDeveloperInsert: the heap and the int returned.
safeDeveloperInsert(m, list, dev) ==
    IF ~validateDeveloper(dev) THEN [mem |-> m, ret |-> -1]
    ELSE IF findDeveloperById(m, list, dev.id) # NULL THEN [mem |-> m, ret |-> -1]
    ELSE [mem |-> insertDeveloper(m, list, dev), ret |-> 0]

----------------------------------------------------------------------------
(* The callers: what each specification starts from and the calls it makes. *)

EmptyHeap == <<>>

NoFile == [exists |-> FALSE]

NoArg == [none |-> TRUE]

\* The variables a specification of one store leaves alone.
InitIdle ==
    /\ loadedArray = NULL /\ skillsCopy = NULL /\ file = NoFile
    /\ pc = "library" /\ i = 0
    /\ op = "create" /\ prevop = "none" /\ arg = NoArg /\ ret = NULL
    /\ pre = EmptyHeap /\ log = <<>> /\ crashed = FALSE
    /\ stray = <<>>

\* A call of library operation name with argument a, returning r.
Called(name, a, r) ==
    /\ op' = name /\ prevop' = op /\ arg' = a /\ ret' = r /\ pre' = mem
    /\ UNCHANGED <<devList, devArray, devHash, loadedArray, skillsCopy, file,
                   pc, i, stray, initCap>>

----------------------------------------------------------------------------
(* The Sequential Store under insertDeveloper and findDeveloperById. *)

\* The records a caller inserts: identities 1..3, identity 1 under two names.
ListDevs ==
    { Developer(1, "Bodheesh VC", <<"b", "@", "e">>, "JavaScript", F(85000)),
      Developer(2, "Alice Johnson", <<"a", "@", "e">>, "Java", F(90000)),
      Developer(3, "Bob Smith", <<"b", "@", "e">>, "Python", F(82000)),
      Developer(1, "Carol Davis", <<"c", "@", "e">>, "C#", F(88000)) }

\* The identities a caller looks up: those of ListDevs, and two of no record.
ListIds == {-5, 1, 2, 3, 4}

InitList ==
    /\ mem = createLinkedList(EmptyHeap).mem
    /\ devList = createLinkedList(EmptyHeap).ptr
    /\ devArray = NULL /\ devHash = NULL /\ initCap = 0
    /\ InitIdle

InsertDeveloper ==
    /\ mem[devList].size < MaxNodes
    /\ \E dev \in ListDevs :
        /\ mem' = insertDeveloper(mem, devList, dev)
        /\ log' = Append(log, dev)
        /\ Called("insertDeveloper", dev, NULL)
        /\ UNCHANGED crashed

FindDeveloperById ==
    \E id \in ListIds :
        /\ UNCHANGED <<mem, log>>
        /\ Called("findDeveloperById", [id |-> id], findDeveloperById(mem, devList, id))
        /\ UNCHANGED crashed

NextList == InsertDeveloper \/ FindDeveloperById

SpecList == InitList /\ [][NextList]_vars

----------------------------------------------------------------------------
(* The Sequential Store under safeDeveloperInsert and validateDeveloper. *)

CandidateIds == {-5, 0, 1, 2}

CandidateNames == {"", "Ann"}

CandidateEmails == {<<>>, <<"a", "b">>, <<"a", "@", "b">>}

CandidateSalaries == {F(-1), F(0), NaN}

\* The Developer values a caller passes: every combination of the above.
Candidates ==
    { Developer(id, name, email, "C", salary) :
        id \in CandidateIds, name \in CandidateNames,
        email \in CandidateEmails, salary \in CandidateSalaries }

SafeDeveloperInsert ==
    \E dev \in Candidates :
        LET r == safeDeveloperInsert(mem, devList, dev)
        IN  /\ mem' = r.mem
            /\ log' = IF r.ret = 0 THEN Append(log, dev) ELSE log
            /\ Called("safeDeveloperInsert", dev, r.ret)
            /\ UNCHANGED crashed

ValidateDeveloper ==
    \E dev \in Candidates \cup {NullDev} :
        /\ UNCHANGED <<mem, log>>
        /\ Called("validateDeveloper", dev, validateDeveloper(dev))
        /\ UNCHANGED crashed

NextSafe == SafeDeveloperInsert \/ ValidateDeveloper

SpecSafe == InitList /\ [][NextSafe]_vars

----------------------------------------------------------------------------
(* Properties of the Sequential Store. *)

RECURSIVE Reverse(_)
Reverse(s) == IF s = <<>> THEN <<>> ELSE Reverse(Tail(s)) \o <<Head(s)>>

\* The records of the list, from head on.
Chain == Traverse(mem, mem[devList].head)

\* Whether a record of identity id is among the records s.
HasId(s, id) == \E k \in 1..Len(s) : s[k].id = id

\* C3: after N insertDeveloper calls the recorded size is N and is the length
\* of the chain, the traversal from head is the inserted records in reverse
\* insertion order, and findDeveloperById returns a node (of that identity)
\* for every identity inserted and NULL for every identity never inserted.
C3_ListMatchesInserts ==
    /\ mem[devList].size = Len(log)
    /\ Len(Chain) = mem[devList].size
    /\ Chain = Reverse(log)
    /\ \A id \in ListIds :
        (findDeveloperById(mem, devList, id) # NULL) <=> HasId(log, id)
    /\ op = "findDeveloperById" =>
        /\ (ret # NULL) <=> HasId(log, arg.id)
        /\ ret # NULL => mem[ret].kind = "Node" /\ mem[ret].data.id = arg.id

\* A lookup among three inserted records found a node behind the head.
C3_Witness ==
    /\ op = "findDeveloperById" /\ Len(log) >= 3
    /\ ret # NULL /\ ret # mem[devList].head

\* The case of a safeDeveloperInsert(dev) call on the list of heap m.
SafeCase(m, dev) ==
    IF ~validateDeveloper(dev) THEN "invalid record"
    ELSE IF HasId(Traverse(m, m[devList].head), dev.id) THEN "duplicate identity"
    ELSE "success"

\* C6: safeDeveloperInsert returns pairwise different values for an invalid
\* record, a duplicate identity and a success.
C6_DistinctOutcomes ==
    \A d1, d2 \in Candidates :
        SafeCase(mem, d1) # SafeCase(mem, d2) =>
            safeDeveloperInsert(mem, devList, d1).ret
                # safeDeveloperInsert(mem, devList, d2).ret

\* C7: a safeDeveloperInsert call that is rejected (the record fails
\* validateDeveloper, or its identity is already in the list) returns a value
\* other than 0 and leaves the heap, so the list, as it was; the list never
\* holds two records of one identity, nor a record failing validateDeveloper.
C7_RejectedLeavesStore ==
    /\ (op = "safeDeveloperInsert" /\ SafeCase(pre, arg) # "success") =>
        ret # 0 /\ mem = pre
    /\ \A j, k \in 1..Len(Chain) : j # k => Chain[j].id # Chain[k].id
    /\ \A k \in 1..Len(Chain) : validateDeveloper(Chain[k])
    /\ Len(Chain) = mem[devList].size

\* A valid record was rejected because its identity is held by a node behind
\* the head.
C7_Witness ==
    /\ op = "safeDeveloperInsert" /\ ret = -1 /\ validateDeveloper(arg)
    /\ Len(Chain) >= 2 /\ Chain[1].id # arg.id

\* The validity of a record as the specification words it.
IsValidRecord(dev) ==
    /\ dev # NullDev
    /\ dev.id > 0
    /\ dev.name # ""
    /\ Len(dev.email) > 0 /\ HasChar(dev.email, "@")
    /\ FGe(dev.salary, F(0))

\* C8: validateDeveloper returns true exactly when identity > 0, name and
\* email are non-empty, email holds an '@' and salary >= 0, and it changes
\* nothing.
C8_ValidateIff ==
    op = "validateDeveloper" => (ret <=> IsValidRecord(arg)) /\ mem = pre

\* The same over the records whose salary is a number.
ValidateIffOnNumbers ==
    (op = "validateDeveloper" /\ (arg = NullDev \/ ~arg.salary.nan)) =>
        (ret <=> IsValidRecord(arg)) /\ mem = pre

----------------------------------------------------------------------------
(* The Indexed Store under addDeveloper, and under addDeveloper and
   sortDevelopersBySalary. *)

\* Developer developers[] of main.
developers ==
    <<
       Developer(1, "Bodheesh VC",
                 <<"b", "o", "d", "h", "e", "e", "s", "h", "@", "e", "x", "a", "m", "p", "l", "e", ".", "c", "o", "m">>,
                 "JavaScript,TypeScript,React,Node.js,MongoDB", F(85000)),
       Developer(2, "Alice Johnson",
                 <<"a", "l", "i", "c", "e", "@", "e", "x", "a", "m", "p", "l", "e", ".", "c", "o", "m">>,
                 "Java,Spring Boot,MySQL,AWS", F(90000)),
       Developer(3, "Bob Smith",
                 <<"b", "o", "b", "@", "e", "x", "a", "m", "p", "l", "e", ".", "c", "o", "m">>,
                 "Python,Django,PostgreSQL,Docker", F(82000)),
       Developer(4, "Carol Davis",
                 <<"c", "a", "r", "o", "l", "@", "e", "x", "a", "m", "p", "l", "e", ".", "c", "o", "m">>,
                 "C#,.NET,SQL Server,Azure", F(88000))
    >>

\* The records appended where only growth is looked at.
GrowDevs == {developers[1], developers[2], developers[3]}

\* The records appended before a sort: those of main, and two whose salaries
\* tie with records of main.
ArrDevs ==
    {developers[k] : k \in 1..4}
        \cup { Developer(5, "Dan Evans", <<"d", "@", "e">>, "Go", F(88000)),
               Developer(6, "Eve Ford", <<"e", "@", "e">>, "Rust", F(85000)) }

InitArray ==
    /\ initCap \in 1..MaxCap
    /\ mem = createDynamicArray(EmptyHeap, initCap).mem
    /\ devArray = createDynamicArray(EmptyHeap, initCap).ptr
    /\ devList = NULL /\ devHash = NULL
    /\ InitIdle

\* addDeveloper(devArray, dev) for a dev of pool, while size < maxSize.
AddDeveloper(pool, maxSize) ==
    /\ mem[devArray].size < maxSize
    /\ \E dev \in pool :
        /\ mem' = addDeveloper(mem, devArray, dev)
        /\ log' = Append(log, dev)
        /\ Called("addDeveloper", dev, NULL)
        /\ UNCHANGED crashed

SortDevelopersBySalary ==
    /\ mem' = sortDevelopersBySalary(mem, devArray)
    /\ UNCHANGED log
    /\ Called("sortDevelopersBySalary", NoArg, NULL)
    /\ UNCHANGED crashed

NextGrow == AddDeveloper(GrowDevs, 2 * MaxCap + 1)

SpecGrow == InitArray /\ [][NextGrow]_vars

NextArray == AddDeveloper(ArrDevs, MaxLen) \/ SortDevelopersBySalary

SpecArray == InitArray /\ [][NextArray]_vars

----------------------------------------------------------------------------
(* Properties of the Indexed Store. *)

\* How many cells of s hold x.
Count(s, x) == Cardinality({k \in 1..Len(s) : s[k] = x})

\* Whether s and t hold the same records, each as many times.
IsPermutation(s, t) ==
    /\ Len(s) = Len(t)
    /\ \A k \in 1..Len(s) : Count(s, s[k]) = Count(t, s[k])

\* Whether the salaries of s never rise from one cell to the next.
NonIncreasing(s) ==
    \A k \in 1..(Len(s) - 1) : FGe(s[k].salary, s[k + 1].salary)

\* C1: after sortDevelopersBySalary the array holds a permutation of the
\* records it held before, salaries non-increasing from index 0 to size-1,
\* with size and capacity as before; the four records of main, appended in
\* their order, end in identity order 2, 4, 1, 3.
C1_SortDescending ==
    op = "sortDevelopersBySalary" =>
        /\ IsPermutation(Elements(mem, devArray), Elements(pre, devArray))
        /\ NonIncreasing(Elements(mem, devArray))
        /\ mem[devArray].size = pre[devArray].size
        /\ mem[devArray].capacity = pre[devArray].capacity
        /\ log = developers =>
            [k \in 1..4 |-> Elements(mem, devArray)[k].id] = <<2, 4, 1, 3>>

\* The four records of main were appended to an array of capacity 2 and
\* sorted.
C1_Witness ==
    /\ op = "sortDevelopersBySalary" /\ prevop = "addDeveloper"
    /\ log = developers /\ initCap = 2
    /\ Elements(mem, devArray) # Elements(pre, devArray)

\* C2: size <= capacity in every state; the element at each index below size
\* is the record appended at that position, whatever resizes happened; once
\* 2C+1 records are appended to an array created with capacity C, the
\* capacity is at least 2C+1.
C2_GrowthKeepsElements ==
    /\ mem[devArray].size <= mem[devArray].capacity
    /\ mem[devArray].capacity = Len(mem[mem[devArray].developers].cells)
    /\ mem[devArray].size = Len(log)
    /\ Elements(mem, devArray) = log
    /\ Len(log) >= 2 * initCap + 1 => mem[devArray].capacity >= 2 * initCap + 1

\* 2C+1 records are in an array created with capacity C = 2, which has been
\* resized twice.
C2_Witness ==
    /\ initCap = 2 /\ Len(log) = 2 * initCap + 1
    /\ mem[devArray].capacity = 4 * initCap
    /\ log[1] # log[2]

\* C9: sorting a second time leaves every record at the index the first sort
\* gave it.
C9_SortIdempotent ==
    (op = "sortDevelopersBySalary" /\ prevop = "sortDevelopersBySalary") =>
        Elements(mem, devArray) = Elements(pre, devArray)

\* An array of three or more records, two different ones of equal salary
\* among them, was sorted twice in a row.
C9_Witness ==
    /\ op = "sortDevelopersBySalary" /\ prevop = "sortDevelopersBySalary"
    /\ mem[devArray].size >= 3
    /\ \E j, k \in 1..mem[devArray].size :
        /\ Elements(mem, devArray)[j] # Elements(mem, devArray)[k]
        /\ Elements(mem, devArray)[j].salary = Elements(mem, devArray)[k].salary

----------------------------------------------------------------------------
(* The Hash Index under hashInsert and hashSearch. *)

\* The keys a caller passes: 1 and 102 share bucket 1, -1 and -102 share the
\* remainder -1, 100 has the last bucket.
HashKeys == {-102, -1, 1, 100, 102}

HashDevs == {developers[1], developers[2]}

\* The indexes past the buckets that the keys of HashKeys hash to.
StrayIndexes == {hash(k) : k \in {k2 \in HashKeys : ~InTable(hash(k2))}}

\* The table is created; what the memory outside it holds is not known.
InitHash ==
    /\ mem = createHashTable(EmptyHeap).mem
    /\ devHash = createHashTable(EmptyHeap).ptr
    /\ devList = NULL /\ devArray = NULL /\ initCap = 0
    /\ loadedArray = NULL /\ skillsCopy = NULL /\ file = NoFile
    /\ pc = "library" /\ i = 0
    /\ op = "create" /\ prevop = "none" /\ arg = NoArg /\ ret = NULL
    /\ pre = EmptyHeap /\ log = <<>> /\ crashed = FALSE
    /\ stray \in [StrayIndexes -> {NULL, WILD}]

\* hashInsert(devHash, key, dev).  With an index past the buckets the access
\* to table->buckets[index] is outside the table's block, which is
\* undefined: the process is killed there, or the access goes to the word of
\* other memory at that address.
HashInsert ==
    /\ ~crashed
    /\ Len(log) < MaxHashInserts
    /\ \E key \in HashKeys, dev \in HashDevs :
        /\ op' = "hashInsert" /\ prevop' = op /\ pre' = mem /\ ret' = NULL
        /\ arg' = [key |-> key, dev |-> dev]
        /\ UNCHANGED <<devList, devArray, devHash, loadedArray, skillsCopy,
                       file, pc, i, initCap>>
        /\ \/ /\ mem' = hashInsert(mem, stray, devHash, key, dev).mem
              /\ stray' = hashInsert(mem, stray, devHash, key, dev).stray
              /\ log' = Append(log, [key |-> key, dev |-> dev])
              /\ UNCHANGED crashed
           \/ /\ ~InTable(hash(key))
              /\ crashed' = TRUE
              /\ UNCHANGED <<mem, stray, log>>

\* hashSearch(devHash, key).  With an index past the buckets the read of
\* table->buckets[index] is undefined, as in hashInsert; a chain that leads
\* to a pointer that is no node makes current->key undefined too: the
\* process is killed, or the loop ends with whatever that memory holds.
HashSearch ==
    /\ ~crashed
    /\ \E key \in HashKeys \cup {0} :
        LET r == hashSearch(mem, stray, devHash, key)
        IN  /\ op' = "hashSearch" /\ prevop' = op /\ pre' = mem
            /\ arg' = [key |-> key]
            /\ UNCHANGED <<mem, stray, log, devList, devArray, devHash,
                           loadedArray, skillsCopy, file, pc, i, initCap>>
            /\ \/ /\ r # WILD
                  /\ ret' = r
                  /\ UNCHANGED crashed
               \/ /\ r = WILD
                  /\ ret' \in {NULL, WILD}
                  /\ UNCHANGED crashed
               \/ /\ r = WILD \/ ~InTable(hash(key))
                  /\ ret' = NULL
                  /\ crashed' = TRUE

NextHash == HashInsert \/ HashSearch

SpecHash == InitHash /\ [][NextHash]_vars

----------------------------------------------------------------------------
(* Properties of the Hash Index. *)

\* The addresses of the hash nodes of heap m.
HashNodes(m) == {a \in DOMAIN m : m[a].kind = "HashNode"}

\* Whether a hashInsert call with key k has returned.
InsertedKey(k) == \E n \in 1..Len(log) : log[n].key = k

\* The record of the last hashInsert call with key k.
LastInserted(k) ==
    log[CHOOSE n \in 1..Len(log) :
            log[n].key = k /\ \A n2 \in (n + 1)..Len(log) : log[n2].key # k].dev

\* C4: when two different keys of equal hash have both been inserted, a
\* hashSearch of either returns a node holding that key and the record
\* inserted under it (the last one, when the key was inserted twice).
C4_CollidingKeysRetrievable ==
    (/\ op = "hashSearch" /\ ~crashed
     /\ InsertedKey(arg.key)
     /\ \E k2 \in HashKeys :
            k2 # arg.key /\ hash(k2) = hash(arg.key) /\ InsertedKey(k2))
        => /\ ret \in HashNodes(mem)
           /\ mem[ret].key = arg.key
           /\ mem[ret].value = LastInserted(arg.key)

\* Key 1 was inserted, then the colliding key 102 in front of it, and the
\* search for key 1 returned the node behind the head of bucket 1.
C4_Witness ==
    /\ op = "hashSearch" /\ arg.key = 1
    /\ InsertedKey(1) /\ InsertedKey(102)
    /\ ret \in HashNodes(mem)
    /\ mem[devHash].buckets[1] # ret
    /\ mem[mem[devHash].buckets[1]].key = 102

\* C5: the index hashInsert and hashSearch compute from the key is one of
\* the table's 101 buckets, 0 to 100.
C5_HashInRange ==
    op \in {"hashInsert", "hashSearch"} => InTable(hash(arg.key))

\* The same for the keys that are not negative.
HashInRangeNonNegative ==
    (op \in {"hashInsert", "hashSearch"} /\ arg.key >= 0) => InTable(hash(arg.key))

----------------------------------------------------------------------------
(* 11. main, statement by statement.  pc names the statement to run next. *)

\* sizeof(developers) / sizeof(developers[0])
numDevelopers == Len(developers)

\* A record of a developers.dat left by an earlier run.
OldRecord == [old |-> TRUE]

\* developers.dat before main runs: absent, or left with up to MaxFileRecords
\* records.
InitialFiles ==
    {NoFile} \cup
        { [exists |-> TRUE, size |-> n, records |-> [k \in 1..n |-> OldRecord]] :
            n \in 0..MaxFileRecords }

InitMain ==
    /\ mem = EmptyHeap
    /\ devList = NULL /\ devArray = NULL /\ devHash = NULL
    /\ loadedArray = NULL /\ skillsCopy = NULL
    /\ file \in InitialFiles
    /\ pc = "createLinkedList" /\ i = 0
    /\ op = "main" /\ prevop = "none" /\ arg = NoArg /\ ret = NULL
    /\ pre = EmptyHeap /\ log = <<>> /\ crashed = FALSE
    /\ stray = <<>> /\ initCap = 2

\* What no statement of main touches.
MainFrame == UNCHANGED <<op, prevop, arg, pre, log, crashed, stray, initCap>>

\* LinkedList* devList = createLinkedList();
MainCreateList ==
    /\ pc = "createLinkedList"
    /\ mem' = createLinkedList(mem).mem
    /\ devList' = createLinkedList(mem).ptr
    /\ pc' = "insertDeveloper" /\ i' = 0
    /\ UNCHANGED <<devArray, devHash, loadedArray, skillsCopy, file, ret>>
    /\ MainFrame

\* for (i = 0; i < numDevelopers; i++) insertDeveloper(devList, developers[i]);
MainInsertLoop ==
    /\ pc = "insertDeveloper"
    /\ IF i < numDevelopers
       THEN /\ mem' = insertDeveloper(mem, devList, developers[i + 1])
            /\ i' = i + 1
            /\ UNCHANGED pc
       ELSE /\ pc' = "findDeveloperById"
            /\ UNCHANGED <<mem, i>>
    /\ UNCHANGED <<devList, devArray, devHash, loadedArray, skillsCopy, file, ret>>
    /\ MainFrame

\* displayDevelopers(devList); found = findDeveloperById(devList, 1);
MainFind ==
    /\ pc = "findDeveloperById"
    /\ ret' = findDeveloperById(mem, devList, 1)
    /\ pc' = "createDynamicArray"
    /\ UNCHANGED <<mem, devList, devArray, devHash, loadedArray, skillsCopy, file, i>>
    /\ MainFrame

\* DynamicArray* devArray = createDynamicArray(2);
MainCreateArray ==
    /\ pc = "createDynamicArray"
    /\ mem' = createDynamicArray(mem, initCap).mem
    /\ devArray' = createDynamicArray(mem, initCap).ptr
    /\ pc' = "addDeveloper" /\ i' = 0
    /\ UNCHANGED <<devList, devHash, loadedArray, skillsCopy, file, ret>>
    /\ MainFrame

\* for (i = 0; i < numDevelopers; i++) addDeveloper(devArray, developers[i]);
MainAddLoop ==
    /\ pc = "addDeveloper"
    /\ IF i < numDevelopers
       THEN /\ mem' = addDeveloper(mem, devArray, developers[i + 1])
            /\ i' = i + 1
            /\ UNCHANGED pc
       ELSE /\ pc' = "sortDevelopersBySalary"
            /\ UNCHANGED <<mem, i>>
    /\ UNCHANGED <<devList, devArray, devHash, loadedArray, skillsCopy, file, ret>>
    /\ MainFrame

\* sortDevelopersBySalary(devArray);
MainSort ==
    /\ pc = "sortDevelopersBySalary"
    /\ mem' = sortDevelopersBySalary(mem, devArray)
    /\ pc' = "createHashTable"
    /\ UNCHANGED <<devList, devArray, devHash, loadedArray, skillsCopy, file, i, ret>>
    /\ MainFrame

\* HashTable* devHash = createHashTable();
MainCreateHash ==
    /\ pc = "createHashTable"
    /\ mem' = createHashTable(mem).mem
    /\ devHash' = createHashTable(mem).ptr
    /\ pc' = "hashInsert" /\ i' = 0
    /\ UNCHANGED <<devList, devArray, loadedArray, skillsCopy, file, ret>>
    /\ MainFrame

\* for (i = 0; i < numDevelopers; i++)
\*     hashInsert(devHash, developers[i].id, developers[i]);
\* (the identities 1..4 all index buckets of the table)
MainHashLoop ==
    /\ pc = "hashInsert"
    /\ IF i < numDevelopers
       THEN /\ mem' = hashInsert(mem, stray, devHash, developers[i + 1].id,
                                 developers[i + 1]).mem
            /\ i' = i + 1
            /\ UNCHANGED pc
       ELSE /\ pc' = "hashSearch"
            /\ UNCHANGED <<mem, i>>
    /\ UNCHANGED <<devList, devArray, devHash, loadedArray, skillsCopy, file, ret>>
    /\ MainFrame

\* Developer* hashFound = hashSearch(devHash, 1);
MainHashSearch ==
    /\ pc = "hashSearch"
    /\ ret' = hashSearch(mem, stray, devHash, 1)
    /\ pc' = "safeStringCopy"
    /\ UNCHANGED <<mem, devList, devArray, devHash, loadedArray, skillsCopy, file, i>>
    /\ MainFrame

\* char* skillsCopy = safeStringCopy(skillsString);
MainCopySkills ==
    /\ pc = "safeStringCopy"
    /\ mem' = safeStringCopy(mem, "JavaScript, TypeScript, React, Node.js, MongoDB").mem
    /\ skillsCopy' = safeStringCopy(mem, "JavaScript, TypeScript, React, Node.js, MongoDB").ptr
    /\ pc' = "processSkillString"
    /\ UNCHANGED <<devList, devArray, devHash, loadedArray, file, i, ret>>
    /\ MainFrame

\* processSkillString(skillsCopy, skillArray, &skillCount): strtok ends the
\* copy's text at the first comma.
MainProcessSkills ==
    /\ pc = "processSkillString"
    /\ mem' = Store(mem, skillsCopy, [mem[skillsCopy] EXCEPT !.text = "JavaScript"])
    /\ pc' = "free(skillsCopy)"
    /\ UNCHANGED <<devList, devArray, devHash, loadedArray, skillsCopy, file, i, ret>>
    /\ MainFrame

\* free(skillsCopy); demonstratePointers();
MainFreeSkills ==
    /\ pc = "free(skillsCopy)"
    /\ mem' = Free(mem, skillsCopy)
    /\ pc' = "saveDevelopersToFile"
    /\ UNCHANGED <<devList, devArray, devHash, loadedArray, skillsCopy, file, i, ret>>
    /\ MainFrame

\* saveDevelopersToFile(devArray, filename): fopen fails and nothing is
\* written, or the file is replaced by the array's size and records.
MainSave ==
    /\ pc = "saveDevelopersToFile"
    /\ \/ UNCHANGED file
       \/ file' = SavedFile(mem, devArray)
    /\ pc' = "loadDevelopersFromFile"
    /\ UNCHANGED <<mem, devList, devArray, devHash, loadedArray, skillsCopy, i, ret>>
    /\ MainFrame

\* DynamicArray* loadedArray = loadDevelopersFromFile(filename): NULL when
\* fopen fails (it does when there is no file), the loaded array otherwise.
MainLoad ==
    /\ pc = "loadDevelopersFromFile"
    /\ \/ /\ loadedArray' = NULL
          /\ UNCHANGED mem
       \/ /\ file.exists
          /\ mem' = loadDevelopersFromFile(mem, file).mem
          /\ loadedArray' = loadDevelopersFromFile(mem, file).ptr
    /\ pc' = "freeDynamicArray(loadedArray)"
    /\ UNCHANGED <<devList, devArray, devHash, skillsCopy, file, i, ret>>
    /\ MainFrame

\* if (loadedArray != NULL) { ...; freeDynamicArray(loadedArray); }
\* then the memory report and the linear search, which change nothing.
MainFreeLoaded ==
    /\ pc = "freeDynamicArray(loadedArray)"
    /\ mem' = IF loadedArray # NULL THEN freeDynamicArray(mem, loadedArray) ELSE mem
    /\ pc' = "freeDeveloperList"
    /\ UNCHANGED <<devList, devArray, devHash, loadedArray, skillsCopy, file, i, ret>>
    /\ MainFrame

\* freeDeveloperList(devList);
MainFreeList ==
    /\ pc = "freeDeveloperList"
    /\ mem' = freeDeveloperList(mem, devList)
    /\ pc' = "freeDynamicArray(devArray)"
    /\ UNCHANGED <<devList, devArray, devHash, loadedArray, skillsCopy, file, i, ret>>
    /\ MainFrame

\* freeDynamicArray(devArray); then the completion message and return 0.
MainFreeArray ==
    /\ pc = "freeDynamicArray(devArray)"
    /\ mem' = freeDynamicArray(mem, devArray)
    /\ pc' = "done"
    /\ UNCHANGED <<devList, devArray, devHash, loadedArray, skillsCopy, file, i, ret>>
    /\ MainFrame

\* The statements whose next step asks for memory.
Allocating ==
    \/ pc \in {"createLinkedList", "createDynamicArray", "createHashTable",
               "safeStringCopy"}
    \/ pc \in {"insertDeveloper", "hashInsert"} /\ i < numDevelopers
    \/ pc = "loadDevelopersFromFile" /\ file.exists
    \/ pc = "addDeveloper" /\ i < numDevelopers
          /\ mem[devArray].size >= mem[devArray].capacity

\* malloc or realloc returns NULL (malloc may do so for the 0 cells of an
\* empty file, too): safeMalloc and resizeArray print and exit(EXIT_FAILURE).
MainAllocationFails ==
    /\ Allocating
    /\ pc' = "exit(EXIT_FAILURE)"
    /\ UNCHANGED <<mem, devList, devArray, devHash, loadedArray, skillsCopy, file, i, ret>>
    /\ MainFrame

NextMain ==
    \/ MainCreateList \/ MainInsertLoop \/ MainFind
    \/ MainCreateArray \/ MainAddLoop \/ MainSort
    \/ MainCreateHash \/ MainHashLoop \/ MainHashSearch
    \/ MainCopySkills \/ MainProcessSkills \/ MainFreeSkills
    \/ MainSave \/ MainLoad \/ MainFreeLoaded
    \/ MainFreeList \/ MainFreeArray
    \/ MainAllocationFails

SpecMain == InitMain /\ [][NextMain]_vars

----------------------------------------------------------------------------
(* Properties of main. *)

\* C10: when main reaches its completion message, every block it allocated
\* has been freed.
C10_AllFreedAtCompletion ==
    pc = "done" => DOMAIN mem = {}

\* At the completion message the live blocks are the hash table and the four
\* nodes of its chains, and nothing else.
LeakIsHashTable ==
    pc = "done" =>
        /\ DOMAIN mem = {devHash} \cup HashNodes(mem)
        /\ mem[devHash].kind = "HashTable"
        /\ Cardinality(HashNodes(mem)) = numDevelopers

====
